---- MODULE Spec2Model ----
(***************************************************************************)
(* Model of the link-budget calculator (src/src/calc.rs, src/src/app.rs).  *)
(*                                                                         *)
(* Numbers.  The program computes in f64.  The model keeps the IEEE-754    *)
(* special values (NaN, +inf, -inf, zero) and the rules that produce them  *)
(* (log10 of zero or of a negative number, x/0, inf-inf, 0*inf), because   *)
(* the guard of update() is about exactly these.  Finite values are exact  *)
(* rationals: rounding and the finite exponent range of f64 are not        *)
(* represented, so an equality of the model is an equality of the real     *)
(* numbers the code computes, which f64 realises up to rounding.           *)
(*                                                                         *)
(* Two sorts of f64 values occur in the code and never mix:                *)
(*   - "level" values, which the code only adds, subtracts and scales      *)
(*     (snr, val_dbm, gains, losses, break_exponent, every dB result):     *)
(*     [t |-> "fin", v |-> <<num, den>>] or one of "nan", "pinf", "ninf";  *)
(*   - "linear" values, which the code only multiplies, divides, compares  *)
(*     and feeds to log10 (temperature, bandwidth, frequency, distance,    *)
(*     d_break, powers in mW or W).  A finite non-zero linear value x is   *)
(*     stored as its sign and q = 10*log10(|x|), an exact rational:        *)
(*     [t |-> "fin", s |-> 1 or -1, q |-> <<num, den>>]; the others are    *)
(*     "zero", "nan", "pinf", "ninf".  log10 and powf(10, .) move between  *)
(*     the two sorts.                                                      *)
(***************************************************************************)
EXTENDS Integers, Sequences, FiniteSets, TLC

VARIABLES app, pre, mid, total_db, input, frames, call

vars == <<app, pre, mid, total_db, input, frames, call>>

(***************************************************************************)
(* Exact rationals <<num, den>>, den > 0, in lowest terms.                 *)
(***************************************************************************)
Abs(x) == IF x < 0 THEN -x ELSE x

RECURSIVE Gcd(_, _)
Gcd(a, b) == IF b = 0 THEN a ELSE Gcd(b, a % b)

RNorm(n, d) ==
  LET sn == IF d < 0 THEN -n ELSE n
      sd == Abs(d)
      g  == Gcd(Abs(sn), sd)
  IN  <<sn \div g, sd \div g>>

R(n, d) == RNorm(n, d)
RZero == <<0, 1>>
RNeg(a) == <<-a[1], a[2]>>
\* a and b over their least common denominator: <<num of a, num of b, den>>
RCommon(a, b) ==
  LET g == Gcd(a[2], b[2])
  IN  <<a[1] * (b[2] \div g), b[1] * (a[2] \div g), (a[2] \div g) * b[2]>>
RAdd(a, b) == LET c == RCommon(a, b) IN RNorm(c[1] + c[2], c[3])
RSub(a, b) == RAdd(a, RNeg(b))
\* cancelled crosswise before multiplying
RMul(a, b) ==
  LET x == RNorm(a[1], b[2])
      y == RNorm(b[1], a[2])
  IN  <<x[1] * y[1], x[2] * y[2]>>
RDiv(a, b) == RMul(a, RNorm(b[2], b[1]))
RLess(a, b) == LET c == RCommon(a, b) IN c[1] < c[2]
RLeq(a, b) == LET c == RCommon(a, b) IN c[1] <= c[2]
RSign(a) == IF a[1] > 0 THEN 1 ELSE IF a[1] < 0 THEN -1 ELSE 0

(***************************************************************************)
(* Level values (f64 used additively).                                     *)
(***************************************************************************)
Fin(n, d) == [t |-> "fin", v |-> R(n, d)]
FinR(r) == [t |-> "fin", v |-> r]
NaN == [t |-> "nan", v |-> RZero]
PInf == [t |-> "pinf", v |-> RZero]
NInf == [t |-> "ninf", v |-> RZero]

is_nan(x) == x.t = "nan"
is_infinite(x) == x.t \in {"pinf", "ninf"}
is_finite(x) == x.t = "fin"

FSign(x) ==
  CASE x.t = "fin" -> RSign(x.v)
    [] x.t = "pinf" -> 1
    [] x.t = "ninf" -> -1
    [] OTHER -> 0

InfOfSign(s) == IF s > 0 THEN PInf ELSE NInf

FNeg(x) ==
  CASE x.t = "fin" -> FinR(RNeg(x.v))
    [] x.t = "pinf" -> NInf
    [] x.t = "ninf" -> PInf
    [] OTHER -> NaN

FAdd(x, y) ==
  CASE is_nan(x) \/ is_nan(y) -> NaN
    [] is_finite(x) /\ is_finite(y) -> FinR(RAdd(x.v, y.v))
    [] is_infinite(x) /\ is_infinite(y) -> IF x.t = y.t THEN x ELSE NaN
    [] is_infinite(x) -> x
    [] OTHER -> y

FSub(x, y) == FAdd(x, FNeg(y))

FMul(x, y) ==
  CASE is_nan(x) \/ is_nan(y) -> NaN
    [] is_finite(x) /\ is_finite(y) -> FinR(RMul(x.v, y.v))
    [] FSign(x) = 0 \/ FSign(y) = 0 -> NaN
    [] OTHER -> InfOfSign(FSign(x) * FSign(y))

\* x / y; a zero divisor is the positive zero a typed-in 0 gives.
FDiv(x, y) ==
  CASE is_nan(x) \/ is_nan(y) -> NaN
    [] is_infinite(x) /\ is_infinite(y) -> NaN
    [] is_infinite(x) -> InfOfSign(FSign(x) * (IF FSign(y) < 0 THEN -1 ELSE 1))
    [] is_infinite(y) -> Fin(0, 1)
    [] FSign(y) = 0 -> IF FSign(x) = 0 THEN NaN ELSE InfOfSign(FSign(x))
    [] OTHER -> FinR(RDiv(x.v, y.v))

\* x <= y on f64: false as soon as one side is NaN.
FLeq(x, y) ==
  CASE is_nan(x) \/ is_nan(y) -> FALSE
    [] is_finite(x) /\ is_finite(y) -> RLeq(x.v, y.v)
    [] x.t = "ninf" \/ y.t = "pinf" -> TRUE
    [] OTHER -> FALSE

FLess(x, y) ==
  CASE is_nan(x) \/ is_nan(y) -> FALSE
    [] is_finite(x) /\ is_finite(y) -> RLess(x.v, y.v)
    [] x.t = y.t -> FALSE
    [] x.t = "ninf" \/ y.t = "pinf" -> TRUE
    [] OTHER -> FALSE

(***************************************************************************)
(* Linear values (f64 used multiplicatively), finite ones by sign and      *)
(* q = 10*log10(magnitude).                                                *)
(***************************************************************************)
Lin(s, n, d) == [t |-> "fin", s |-> s, q |-> R(n, d)]
LinR(s, r) == [t |-> "fin", s |-> s, q |-> r]
Pos(n, d) == Lin(1, n, d)
LZero == [t |-> "zero", s |-> 1, q |-> RZero]
LNaN == [t |-> "nan", s |-> 1, q |-> RZero]
LPInf == [t |-> "pinf", s |-> 1, q |-> RZero]
LNInf == [t |-> "ninf", s |-> -1, q |-> RZero]

LSign(x) ==
  CASE x.t = "fin" -> x.s
    [] x.t = "pinf" -> 1
    [] x.t = "ninf" -> -1
    [] OTHER -> 0

LInfOfSign(s) == IF s > 0 THEN LPInf ELSE LNInf

LMul(x, y) ==
  CASE x.t = "nan" \/ y.t = "nan" -> LNaN
    [] x.t = "fin" /\ y.t = "fin" -> LinR(x.s * y.s, RAdd(x.q, y.q))
    [] x.t = "zero" /\ y.t \in {"pinf", "ninf"} -> LNaN
    [] y.t = "zero" /\ x.t \in {"pinf", "ninf"} -> LNaN
    [] x.t = "zero" \/ y.t = "zero" -> LZero
    [] OTHER -> LInfOfSign(LSign(x) * LSign(y))

LDiv(x, y) ==
  CASE x.t = "nan" \/ y.t = "nan" -> LNaN
    [] x.t = "fin" /\ y.t = "fin" -> LinR(x.s * y.s, RSub(x.q, y.q))
    [] x.t = "zero" /\ y.t = "zero" -> LNaN
    [] x.t \in {"pinf", "ninf"} /\ y.t \in {"pinf", "ninf"} -> LNaN
    [] x.t = "zero" \/ y.t \in {"pinf", "ninf"} -> LZero
    [] y.t = "zero" -> LInfOfSign(LSign(x))
    [] OTHER -> LInfOfSign(LSign(x) * LSign(y))

\* x < y on f64: false as soon as one side is NaN.
LLess(x, y) ==
  CASE x.t = "nan" \/ y.t = "nan" -> FALSE
    [] x.t = "fin" /\ y.t = "fin" ->
         IF x.s # y.s THEN x.s < y.s
         ELSE IF x.s = 1 THEN RLess(x.q, y.q) ELSE RLess(y.q, x.q)
    [] x.t = y.t -> FALSE
    [] x.t = "ninf" \/ y.t = "pinf" -> TRUE
    [] x.t = "pinf" \/ y.t = "ninf" -> FALSE
    [] x.t = "zero" -> LSign(y) > 0
    [] OTHER -> LSign(x) < 0

\* f64::log10: -inf at zero, NaN below zero.
log10(x) ==
  CASE x.t = "fin" -> IF x.s = 1 THEN FinR(RDiv(x.q, R(10, 1))) ELSE NaN
    [] x.t = "zero" -> NInf
    [] x.t = "pinf" -> PInf
    [] OTHER -> NaN

\* f64::powf(10.0, e): always positive, 0 at -inf.
powf10(e) ==
  CASE e.t = "fin" -> LinR(1, RMul(e.v, R(10, 1)))
    [] e.t = "pinf" -> LPInf
    [] e.t = "ninf" -> LZero
    [] OTHER -> LNaN

(***************************************************************************)
(* calc.rs                                                                 *)
(***************************************************************************)
\* 10*log10(1.380649e-23) = -228.60 (Boltzmann constant, joule per kelvin)
KB == Pos(-22860, 100)

Thousand == Pos(30, 1)
Ten == Fin(10, 1)
Twenty == Fin(20, 1)
OneGHz == Pos(90, 1)
OneMetre == Pos(0, 1)

thermal_noise_power(temperature, bandwidth) == LMul(LMul(KB, temperature), bandwidth)

\* thermal_noise_temperature as power / (bandwidth / KB)
thermal_noise_temperature_kb_in_divisor(power, bandwidth) ==
  LDiv(power, LDiv(bandwidth, KB))

thermal_noise_temperature(power, bandwidth) == LDiv(LDiv(power, bandwidth), KB)

milliwatt_to_dbm(power) == FMul(Ten, log10(power))

\* watt_to_dbm without the factor 1000
watt_to_dbm_unscaled(power) == FMul(Ten, log10(power))

watt_to_dbm(power) == FMul(Ten, log10(LMul(power, Thousand)))

dbm_to_milliwat(dbm) == powf10(FDiv(dbm, Ten))

dbm_to_watt(dbm) == LDiv(powf10(FDiv(dbm, Ten)), Thousand)

\* app.rs calls calc::dbm_to_dbw and calc::dbw_to_dbm; calc.rs does not hold
\* them.  They follow the specification: dBW = dBm - 30.
dbm_to_dbw(dbm) == FSub(dbm, Fin(30, 1))

dbw_to_dbm(dbw) == FAdd(dbw, Fin(30, 1))

one_meter_one_ghz == Fin(32, 1)

freq_loss(frequency) == FMul(Twenty, log10(LDiv(frequency, OneGHz)))

\* the near field reaching up to and including the break
path_loss_near_inclusive(distance, d_break) ==
  LLess(distance, d_break) \/ distance = d_break

\* the branch of friis::path_loss: TRUE is the near field (distance < d_break)
path_loss_near(distance, d_break) == LLess(distance, d_break)

\* path_loss with the ratio of the far-field term upside down
path_loss_ratio_swapped(distance, d_break, frequency, break_exponent) ==
  FAdd(FAdd(one_meter_one_ghz, freq_loss(frequency)),
       IF path_loss_near(distance, d_break)
       THEN FMul(Twenty, log10(LDiv(distance, OneMetre)))
       ELSE FAdd(FMul(Twenty, log10(LDiv(d_break, OneMetre))),
                 FMul(FMul(break_exponent, Ten), log10(LDiv(d_break, distance)))))

path_loss(distance, d_break, frequency, break_exponent) ==
  FAdd(FAdd(one_meter_one_ghz, freq_loss(frequency)),
       IF path_loss_near(distance, d_break)
       THEN FMul(Twenty, log10(LDiv(distance, OneMetre)))
       ELSE FAdd(FMul(Twenty, log10(LDiv(d_break, OneMetre))),
                 FMul(FMul(break_exponent, Ten), log10(LDiv(distance, d_break)))))

loss_at_break(d_break) == FMul(Twenty, log10(LDiv(d_break, OneMetre)))

\* the branch of friis::distance: TRUE inverts the near-field slope
distance_near(pl, d_break) == FLeq(pl, loss_at_break(d_break))

\* distance() inverting the near-field slope on both sides of the break
distance_single_slope(path_loss_db, d_break, frequency, break_exponent) ==
  powf10(FDiv(FSub(FSub(path_loss_db, one_meter_one_ghz), freq_loss(frequency)), Twenty))

\* distance() without the final multiplication by d_break
distance_far_unscaled(path_loss_db, d_break, frequency, break_exponent) ==
  LET pl == FSub(FSub(path_loss_db, one_meter_one_ghz), freq_loss(frequency))
  IN  IF distance_near(pl, d_break)
      THEN powf10(FDiv(pl, Twenty))
      ELSE powf10(FDiv(FDiv(FSub(pl, loss_at_break(d_break)), break_exponent), Ten))

friis_distance(path_loss_db, d_break, frequency, break_exponent) ==
  LET pl == FSub(FSub(path_loss_db, one_meter_one_ghz), freq_loss(frequency))
  IN  IF distance_near(pl, d_break)
      THEN powf10(FDiv(pl, Twenty))
      ELSE LMul(powf10(FDiv(FDiv(FSub(pl, loss_at_break(d_break)), break_exponent), Ten)),
                d_break)

(***************************************************************************)
(* app.rs: CalculationTarget, PowerUnit, Power                             *)
(***************************************************************************)
CalculationTarget == {"Snr", "Distance", "TxPower"}

PowerUnit == {"DbMilliwatt", "DbWatt", "Milliwatt", "Watt"}

\* Power::default(): 0 dBm, shown in dBm
PowerDefault == [val_dbm |-> Fin(0, 1), unit |-> "DbMilliwatt"]

\* get_in_unit with the Watt arm calling the milliwatt conversion
get_in_unit_watt_as_milliwatt(power) ==
  CASE power.unit = "DbMilliwatt" -> power.val_dbm
    [] power.unit = "DbWatt" -> dbm_to_dbw(power.val_dbm)
    [] OTHER -> dbm_to_milliwat(power.val_dbm)

\* the value in the display unit: a level for dBm and dBW, linear for mW and W
get_in_unit(power) ==
  CASE power.unit = "DbMilliwatt" -> power.val_dbm
    [] power.unit = "DbWatt" -> dbm_to_dbw(power.val_dbm)
    [] power.unit = "Milliwatt" -> dbm_to_milliwat(power.val_dbm)
    [] power.unit = "Watt" -> dbm_to_watt(power.val_dbm)

value_from_unit(power, val_unit) ==
  [power EXCEPT !.val_dbm =
     CASE power.unit = "DbMilliwatt" -> val_unit
       [] power.unit = "DbWatt" -> dbw_to_dbm(val_unit)
       [] power.unit = "Milliwatt" -> milliwatt_to_dbm(val_unit)
       [] power.unit = "Watt" -> watt_to_dbm(val_unit)]

NoEntry == [t |-> "none"]

\* Power::value_selector_ui: the DragValue shows the value in the display unit
\* and replaces it by what the user enters, if anything; the result is
\* converted back in every frame.
value_selector_ui(power, entry) ==
  LET shown == get_in_unit(power)
      val_unit == IF entry.t = "none" THEN shown ELSE entry
  IN  value_from_unit(power, val_unit)

\* Power::unit_selector_ui: a click on one of the four units, or none
unit_selector_ui(power, click) ==
  IF click \in PowerUnit THEN [power EXCEPT !.unit = click] ELSE power

(***************************************************************************)
(* app.rs: prefix_drag_value's custom_parser.  The text goes through       *)
(* number_prefix's FromStr, whose result is the parser's input here:       *)
(* an error, a bare number, or a number with a decimal or binary prefix.   *)
(***************************************************************************)
DecimalPrefix == {"Kilo", "Mega", "Giga", "Tera", "Peta", "Exa", "Zetta", "Yotta"}

BinaryPrefix == {"Kibi", "Mebi", "Gibi", "Tebi", "Pebi", "Exbi", "Zebi", "Yobi"}

ParseErr == [t |-> "Err"]
Standalone(number) == [t |-> "Standalone", number |-> number]
Prefixed(prefix, number) == [t |-> "Prefixed", prefix |-> prefix, number |-> number]

None == [t |-> "None"]
Some(x) == [t |-> "Some", x |-> x]

\* 1e3, 1e6, ... as 10*log10
factor(prefix) ==
  CASE prefix = "Kilo" -> Pos(30, 1)
    [] prefix = "Mega" -> Pos(60, 1)
    [] prefix = "Giga" -> Pos(90, 1)
    [] prefix = "Tera" -> Pos(120, 1)
    [] prefix = "Peta" -> Pos(150, 1)
    [] prefix = "Exa" -> Pos(180, 1)
    [] prefix = "Zetta" -> Pos(210, 1)
    [] prefix = "Yotta" -> Pos(240, 1)

\* custom_parser with the catch-all arm falling back to a factor of one
custom_parser_unknown_as_one(parsed) ==
  CASE parsed.t = "Err" -> None
    [] parsed.t = "Standalone" -> Some(parsed.number)
    [] parsed.t = "Prefixed" ->
         IF parsed.prefix \in DecimalPrefix
         THEN Some(LMul(factor(parsed.prefix), parsed.number))
         ELSE Some(parsed.number)

custom_parser(parsed) ==
  CASE parsed.t = "Err" -> None
    [] parsed.t = "Standalone" -> Some(parsed.number)
    [] parsed.t = "Prefixed" ->
         IF parsed.prefix \in DecimalPrefix
         THEN Some(LMul(factor(parsed.prefix), parsed.number))
         ELSE None

\* DragValue .range(0.0..=f64::MAX)
clamp_range(x) == IF LLess(x, LZero) THEN LZero ELSE x

\* a prefix_drag_value field after the user commits a text: a parse failure
\* leaves the field alone
prefix_drag_value(value, parsed) ==
  LET r == custom_parser(parsed)
  IN  IF r.t = "None" THEN value ELSE clamp_range(r.x)

(***************************************************************************)
(* app.rs: LinkBudgetApp                                                   *)
(***************************************************************************)
\* the non-blank texts a gain or a loss can be named by
Names == {"rx"}

\* impl Default for LinkBudgetApp; the linear fields as 10*log10:
\* 290 K = 24.62, 20e6 Hz = 73.01, 2.4e9 Hz = 93.80, 2000 m = 33.01,
\* 500 m = 26.99
Default ==
  [temperature |-> Pos(2462, 100),
   bandwidth |-> Pos(7301, 100),
   snr |-> Fin(10, 1),
   frequency |-> Pos(9380, 100),
   tx_power |-> PowerDefault,
   rx_power |-> PowerDefault,
   distance |-> Pos(3301, 100),
   d_break |-> Pos(2699, 100),
   break_exponent |-> Fin(43, 10),
   losses |-> [n \in {} |-> Fin(0, 1)],
   loss_name |-> "",
   gains |-> [n \in {} |-> Fin(0, 1)],
   gain_name |-> "",
   calculation_target |-> "Snr"]

\* Iterator::sum over the values of a map (0.0 for the empty map)
RECURSIVE MapSum(_)
MapSum(m) ==
  IF DOMAIN m = {} THEN Fin(0, 1)
  ELSE LET k == CHOOSE k \in DOMAIN m : TRUE
       IN  FAdd(m[k], MapSum([j \in DOMAIN m \ {k} |-> m[j]]))

total_losses(self) == MapSum(self.losses)

total_gains(self) == MapSum(self.gains)

thermal_noise_floor(self) ==
  watt_to_dbm(thermal_noise_power(self.temperature, self.bandwidth))

\* total_sum with the gains on the side of the losses
total_sum_gains_subtracted(self) ==
  LET thermal == thermal_noise_floor(self)
      path == path_loss(self.distance, self.d_break, self.frequency, self.break_exponent)
      negative == FAdd(FAdd(FAdd(FAdd(thermal, total_losses(self)), total_gains(self)),
                            path), self.snr)
  IN  FSub(self.tx_power.val_dbm, negative)

total_sum(self) ==
  LET thermal == thermal_noise_floor(self)
      losses == total_losses(self)
      gains == total_gains(self)
      path == path_loss(self.distance, self.d_break, self.frequency, self.break_exponent)
      negative == FAdd(FAdd(FAdd(thermal, losses), path), self.snr)
      positive == FAdd(self.tx_power.val_dbm, gains)
  IN  FSub(positive, negative)

\* HashMap::insert and HashMap::retain
MapInsert(m, k, v) == [j \in DOMAIN m \cup {k} |-> IF j = k THEN v ELSE m[j]]
MapRemove(m, k) == [j \in DOMAIN m \ {k} |-> m[j]]

(***************************************************************************)
(* One frame's user input: at most one widget is used per frame.           *)
(* [kind |-> ..., val |-> ...]; kind "idle" is a frame without input.      *)
(***************************************************************************)
In(kind, val) == [kind |-> kind, val |-> val]
Idle == In("idle", 0)

\* update(), lines 266-268: the Reset button
\* a Reset that restores the parameters but keeps the gains and losses
ui_reset_keeps_tables(self, in) ==
  IF in.kind = "reset"
  THEN [Default EXCEPT !.gains = self.gains, !.losses = self.losses]
  ELSE self

ui_reset(self, in) == IF in.kind = "reset" THEN Default ELSE self

\* ui_parameters: the widgets in the order the code shows them; the noise
\* floor is read after the temperature and bandwidth widgets, and rx_power
\* is written after the snr widget
ui_parameters(self, in) ==
  LET temperature == IF in.kind = "temperature" THEN in.val ELSE self.temperature
      bandwidth == IF in.kind = "bandwidth"
                   THEN prefix_drag_value(self.bandwidth, in.val)
                   ELSE self.bandwidth
      floor == watt_to_dbm(thermal_noise_power(temperature, bandwidth))
      snr == IF in.kind = "snr" THEN in.val ELSE self.snr
  IN  [self EXCEPT
         !.temperature = temperature,
         !.bandwidth = bandwidth,
         !.frequency = IF in.kind = "frequency"
                       THEN prefix_drag_value(self.frequency, in.val)
                       ELSE self.frequency,
         !.calculation_target = IF in.kind = "target" /\ in.val \in {"Snr", "TxPower"}
                                THEN in.val ELSE self.calculation_target,
         !.snr = snr,
         !.tx_power =
            unit_selector_ui(
              value_selector_ui(self.tx_power,
                                IF in.kind = "tx_power" THEN in.val ELSE NoEntry),
              IF in.kind = "tx_unit" THEN in.val ELSE ""),
         !.rx_power =
            unit_selector_ui(
              [self.rx_power EXCEPT !.val_dbm = FAdd(snr, floor)],
              IF in.kind = "rx_unit" THEN in.val ELSE "")]

\* ui_path_loss
ui_path_loss(self, in) ==
  [self EXCEPT
     !.calculation_target = IF in.kind = "target" /\ in.val = "Distance"
                            THEN in.val ELSE self.calculation_target,
     !.distance = IF in.kind = "distance" THEN in.val ELSE self.distance,
     !.d_break = IF in.kind = "d_break" THEN in.val ELSE self.d_break,
     !.break_exponent = IF in.kind = "break_exponent" THEN in.val
                        ELSE self.break_exponent]

\* update(), lines 284-336: the Gains panel
ui_gains(self, in) ==
  CASE in.kind = "gain_name" -> [self EXCEPT !.gain_name = in.val]
    [] in.kind = "gain_add" ->
         IF self.gain_name \in Names
         THEN [self EXCEPT !.gains = MapInsert(self.gains, self.gain_name, Fin(10, 1)),
                           !.gain_name = ""]
         ELSE self
    [] in.kind = "gain_remove" -> [self EXCEPT !.gains = MapRemove(self.gains, in.val)]
    [] in.kind = "gain_value" /\ in.val.name \in DOMAIN self.gains ->
         [self EXCEPT !.gains[in.val.name] = in.val.db]
    [] OTHER -> self

\* update(), lines 337-388: the Losses panel
ui_losses(self, in) ==
  CASE in.kind = "loss_name" -> [self EXCEPT !.loss_name = in.val]
    [] in.kind = "loss_add" ->
         IF self.loss_name \in Names
         THEN [self EXCEPT !.losses = MapInsert(self.losses, self.loss_name, Fin(10, 1)),
                           !.loss_name = ""]
         ELSE self
    [] in.kind = "loss_remove" -> [self EXCEPT !.losses = MapRemove(self.losses, in.val)]
    [] in.kind = "loss_value" /\ in.val.name \in DOMAIN self.losses ->
         [self EXCEPT !.losses[in.val.name] = in.val.db]
    [] OTHER -> self

\* everything update() does between reading total_sum() and the guard
ui(self, in) ==
  ui_losses(ui_gains(ui_path_loss(ui_parameters(ui_reset(self, in), in), in), in), in)

\* update(), lines 391-393
guard(total) == is_infinite(total) \/ is_nan(total)

\* adjust with the TxPower arm adding the error instead of subtracting it
adjust_tx_added(self, total) ==
  CASE self.calculation_target = "Snr" -> [self EXCEPT !.snr = FAdd(self.snr, total)]
    [] self.calculation_target = "Distance" ->
         [self EXCEPT !.distance =
            friis_distance(FAdd(path_loss(self.distance, self.d_break, self.frequency,
                                          self.break_exponent), total),
                           self.d_break, self.frequency, self.break_exponent)]
    [] self.calculation_target = "TxPower" ->
         [self EXCEPT !.tx_power.val_dbm = FAdd(self.tx_power.val_dbm, total)]

\* adjust with the TxPower arm writing to snr, the field of the arm above it
adjust_wrong_field(self, total) ==
  CASE self.calculation_target = "Snr" -> [self EXCEPT !.snr = FAdd(self.snr, total)]
    [] self.calculation_target = "Distance" ->
         [self EXCEPT !.distance =
            friis_distance(FAdd(path_loss(self.distance, self.d_break, self.frequency,
                                          self.break_exponent), total),
                           self.d_break, self.frequency, self.break_exponent)]
    [] self.calculation_target = "TxPower" ->
         [self EXCEPT !.snr = FSub(self.snr, total)]

\* adjust with the Snr arm subtracting the error instead of adding it
adjust_snr_subtracted(self, total) ==
  CASE self.calculation_target = "Snr" -> [self EXCEPT !.snr = FSub(self.snr, total)]
    [] self.calculation_target = "Distance" ->
         [self EXCEPT !.distance =
            friis_distance(FAdd(path_loss(self.distance, self.d_break, self.frequency,
                                          self.break_exponent), total),
                           self.d_break, self.frequency, self.break_exponent)]
    [] self.calculation_target = "TxPower" ->
         [self EXCEPT !.tx_power.val_dbm = FSub(self.tx_power.val_dbm, total)]

\* update(), lines 395-406: the match on calculation_target
adjust(self, total) ==
  CASE self.calculation_target = "Snr" -> [self EXCEPT !.snr = FAdd(self.snr, total)]
    [] self.calculation_target = "Distance" ->
         LET new_path_loss ==
               FAdd(path_loss(self.distance, self.d_break, self.frequency,
                              self.break_exponent), total)
         IN  [self EXCEPT !.distance =
                friis_distance(new_path_loss, self.d_break, self.frequency,
                               self.break_exponent)]
    [] self.calculation_target = "TxPower" ->
         [self EXCEPT !.tx_power.val_dbm = FSub(self.tx_power.val_dbm, total)]

(***************************************************************************)
(* The frame loop.  app is the LinkBudgetApp; pre, mid, total_db and input *)
(* record the last call of update(): the app it started from, the app      *)
(* after the widgets and before the guard, the closure error it read, and  *)
(* the user's input.  frames counts the calls of update().                 *)
(***************************************************************************)
MaxFrames == 3

NoCall == [op |-> "none"]

Init ==
  /\ app = Default
  /\ pre = Default
  /\ mid = Default
  /\ total_db = Fin(0, 1)
  /\ input = In("init", 0)
  /\ frames = 0
  /\ call = NoCall

\* update(): total_sum() is read first, then the widgets run, then the guard
\* and the match on the target
Frame(in) ==
  /\ frames < MaxFrames
  /\ frames' = frames + 1
  /\ \E total \in {total_sum(app)} :
       \E shown \in {ui(app, in)} :
         /\ total_db' = total
         /\ mid' = shown
         /\ app' = IF guard(total) THEN shown ELSE adjust(shown, total)
  /\ pre' = app
  /\ input' = in
  /\ UNCHANGED call

\* what the user can enter, by widget
TemperatureInputs == {LZero, Lin(-1, 0, 1)}
BandwidthInputs == {Standalone(LZero), Prefixed("Mega", Pos(0, 1))}
FrequencyInputs == {Standalone(LZero), Prefixed("Giga", Pos(0, 1))}
SnrInputs == {Fin(20, 1)}
LevelInputs == {Fin(30, 1)}
LinearInputs == {Pos(10, 1), LZero}
DistanceInputs == {Pos(20, 1), Pos(2699, 100), LZero}
DBreakInputs == {Pos(40, 1), LZero}
BreakExponentInputs == {Fin(2, 1), Fin(0, 1), Fin(-1, 1)}
DbInputs == {Fin(3, 1)}
NameInputs == Names

\* the units the user picks for rx power, which is only displayed
RxUnitInputs == {"DbWatt", "Watt"}

TxPowerInputs(unit) ==
  IF unit \in {"DbMilliwatt", "DbWatt"} THEN LevelInputs ELSE LinearInputs

FrameIdle == Frame(Idle)

FrameReset == Frame(In("reset", 0))

FrameEditTemperature(v) == Frame(In("temperature", v))

FrameEditBandwidth(parsed) == Frame(In("bandwidth", parsed))

FrameEditFrequency(parsed) == Frame(In("frequency", parsed))

FrameSelectTarget(t) == app.calculation_target # t /\ Frame(In("target", t))

FrameEditSnr(v) == Frame(In("snr", v))

FrameEditTxPower(v) == Frame(In("tx_power", v))

FrameSelectTxUnit(u) == app.tx_power.unit # u /\ Frame(In("tx_unit", u))

FrameSelectRxUnit(u) == app.rx_power.unit # u /\ Frame(In("rx_unit", u))

FrameEditDistance(v) == Frame(In("distance", v))

FrameEditDBreak(v) == Frame(In("d_break", v))

FrameEditBreakExponent(v) == Frame(In("break_exponent", v))

FrameTypeGainName(n) == app.gain_name # n /\ Frame(In("gain_name", n))

FrameAddGain == Frame(In("gain_add", 0))

FrameRemoveGain(n) == n \in DOMAIN app.gains /\ Frame(In("gain_remove", n))

FrameEditGain(n, v) ==
  n \in DOMAIN app.gains /\ Frame(In("gain_value", [name |-> n, db |-> v]))

FrameTypeLossName(n) == app.loss_name # n /\ Frame(In("loss_name", n))

FrameAddLoss == Frame(In("loss_add", 0))

FrameRemoveLoss(n) == n \in DOMAIN app.losses /\ Frame(In("loss_remove", n))

FrameEditLoss(n, v) ==
  n \in DOMAIN app.losses /\ Frame(In("loss_value", [name |-> n, db |-> v]))

Next ==
  \/ FrameIdle
  \/ FrameReset
  \/ \E v \in TemperatureInputs : FrameEditTemperature(v)
  \/ \E r \in BandwidthInputs : FrameEditBandwidth(r)
  \/ \E r \in FrequencyInputs : FrameEditFrequency(r)
  \/ \E t \in CalculationTarget : FrameSelectTarget(t)
  \/ \E v \in SnrInputs : FrameEditSnr(v)
  \/ \E v \in TxPowerInputs(app.tx_power.unit) : FrameEditTxPower(v)
  \/ \E u \in PowerUnit : FrameSelectTxUnit(u)
  \/ \E u \in RxUnitInputs : FrameSelectRxUnit(u)
  \/ \E v \in DistanceInputs : FrameEditDistance(v)
  \/ \E v \in DBreakInputs : FrameEditDBreak(v)
  \/ \E v \in BreakExponentInputs : FrameEditBreakExponent(v)
  \/ \E n \in NameInputs : FrameTypeGainName(n)
  \/ FrameAddGain
  \/ \E n \in Names : FrameRemoveGain(n)
  \/ \E n \in Names, v \in DbInputs : FrameEditGain(n, v)
  \/ \E n \in NameInputs : FrameTypeLossName(n)
  \/ FrameAddLoss
  \/ \E n \in Names : FrameRemoveLoss(n)
  \/ \E n \in Names, v \in DbInputs : FrameEditLoss(n, v)

Spec == Init /\ [][Next]_vars

(***************************************************************************)
(* calc::friis called on its own: the arguments are drawn by the initial   *)
(* state, path_loss is applied to both distances, then distance() to the   *)
(* first loss.  near and near_back record the branch each of the two took  *)
(* for the first distance.                                                 *)
(***************************************************************************)
FriisDistances ==
  {Pos(-10, 1), Pos(0, 1), Pos(20, 1), Pos(2699, 100), Pos(3301, 100), LZero}
FriisBreaks == {Pos(2699, 100), Pos(0, 1), LZero}
FriisFrequencies == {Pos(9380, 100), Pos(60, 1), LZero}
FriisExponents == {Fin(43, 10), Fin(2, 1), Fin(1, 2), Fin(0, 1), Fin(-1, 1)}

Quiet ==
  /\ app = Default
  /\ pre = Default
  /\ mid = Default
  /\ total_db = Fin(0, 1)
  /\ input = In("init", 0)
  /\ frames = 0

InitFriis ==
  /\ Quiet
  /\ \E d \in FriisDistances, d2 \in FriisDistances, b \in FriisBreaks,
        f \in FriisFrequencies, n \in FriisExponents :
       call = [op |-> "args", distance |-> d, distance2 |-> d2, d_break |-> b,
               frequency |-> f, break_exponent |-> n,
               loss |-> NaN, loss2 |-> NaN, back |-> LNaN,
               near |-> FALSE, near_back |-> FALSE]

CallPathLoss ==
  /\ call.op = "args"
  /\ call' = [call EXCEPT
                !.op = "path_loss",
                !.near = path_loss_near(call.distance, call.d_break),
                !.loss = path_loss(call.distance, call.d_break, call.frequency,
                                   call.break_exponent),
                !.loss2 = path_loss(call.distance2, call.d_break, call.frequency,
                                    call.break_exponent)]
  /\ UNCHANGED <<app, pre, mid, total_db, input, frames>>

CallDistance ==
  /\ call.op = "path_loss"
  /\ call' = [call EXCEPT
                !.op = "distance",
                !.near_back =
                  distance_near(FSub(FSub(call.loss, one_meter_one_ghz),
                                     freq_loss(call.frequency)),
                                call.d_break),
                !.back = friis_distance(call.loss, call.d_break, call.frequency,
                                        call.break_exponent)]
  /\ UNCHANGED <<app, pre, mid, total_db, input, frames>>

NextFriis == CallPathLoss \/ CallDistance

SpecFriis == InitFriis /\ [][NextFriis]_vars

(***************************************************************************)
(* Power on its own: a value in the display unit is stored with            *)
(* value_from_unit and read back with get_in_unit.                         *)
(***************************************************************************)
PowerLevels == {Fin(k, 2) : k \in -8 .. 8}
PowerLinears == {Pos(k, 2) : k \in -8 .. 8} \cup {LZero, Lin(-1, 0, 1), Lin(-1, 10, 1)}

UnitInputs(unit) ==
  IF unit \in {"DbMilliwatt", "DbWatt"} THEN PowerLevels ELSE PowerLinears

InitPower ==
  /\ Quiet
  /\ \E u \in PowerUnit :
       \E p \in UnitInputs(u) :
         call = [op |-> "args", power |-> [val_dbm |-> Fin(0, 1), unit |-> u],
                 p |-> p, back |-> p]

CallValueFromUnit ==
  /\ call.op = "args"
  /\ call' = [call EXCEPT !.op = "stored", !.power = value_from_unit(call.power, call.p)]
  /\ UNCHANGED <<app, pre, mid, total_db, input, frames>>

CallGetInUnit ==
  /\ call.op = "stored"
  /\ call' = [call EXCEPT !.op = "shown", !.back = get_in_unit(call.power)]
  /\ UNCHANGED <<app, pre, mid, total_db, input, frames>>

NextPower == CallValueFromUnit \/ CallGetInUnit

SpecPower == InitPower /\ [][NextPower]_vars

(***************************************************************************)
(* The two prefix_drag_value fields on their own: frames in which the user *)
(* commits a text to the bandwidth or the frequency field.                 *)
(***************************************************************************)
MaxTexts == 2

Mantissas == {Pos(38, 10), Lin(-1, 0, 1)}

ParseResults ==
  {ParseErr} \cup {Standalone(m) : m \in Mantissas}
  \cup {Prefixed(p, m) : p \in DecimalPrefix \cup BinaryPrefix, m \in Mantissas}

CommitBandwidth(parsed) == frames < MaxTexts /\ FrameEditBandwidth(parsed)

CommitFrequency(parsed) == frames < MaxTexts /\ FrameEditFrequency(parsed)

NextParse ==
  \/ \E r \in ParseResults : CommitBandwidth(r)
  \/ \E r \in ParseResults : CommitFrequency(r)

SpecParse == Init /\ [][NextParse]_vars

(***************************************************************************)
(* Properties of the frame loop                                            *)
(***************************************************************************)
Zero == Fin(0, 1)

\* update() has run at least once
Acted == input.kind # "init"

\* the guard let the frame through to the match on the target
Adjusted == Acted /\ ~guard(total_db)

IsPositive(x) == x.t = "fin" /\ x.s = 1

\* T > 0, B > 0, f > 0, d > 0, d_break > 0, n > 0
Valid(self) ==
  /\ IsPositive(self.temperature)
  /\ IsPositive(self.bandwidth)
  /\ IsPositive(self.frequency)
  /\ IsPositive(self.distance)
  /\ IsPositive(self.d_break)
  /\ FLess(Zero, self.break_exponent)

\* the field the active target names
TargetField(self) ==
  CASE self.calculation_target = "Snr" -> self.snr
    [] self.calculation_target = "Distance" -> self.distance
    [] self.calculation_target = "TxPower" -> self.tx_power.val_dbm

\* C1 (as claimed): a frame without user input whose closure error is NaN,
\* +inf or -inf leaves every stored field as it was, rx power included.
C1_GuardNoOp == (input.kind = "idle" /\ guard(total_db)) => app = pre

\* C2: from a snapshot with valid inputs and a finite closure error, one frame
\* without user input ends with a closure error of 0, whatever the target.
C2_SingleStep ==
  (input.kind = "idle" /\ Valid(pre) /\ is_finite(total_db)) => total_sum(app) = Zero

\* C2 witness: such a frame had a non-zero error to remove and solved for the
\* distance.
C2_Witness ==
  /\ input.kind = "idle"
  /\ Valid(pre)
  /\ is_finite(total_db)
  /\ total_db # Zero
  /\ pre.calculation_target = "Distance"
  /\ total_sum(app) = Zero

\* C3 (as claimed): when the snapshot the match works on has a closure error of
\* 0, the target field comes out unchanged, for any target.
C3_Original ==
  (Adjusted /\ total_db = Zero /\ total_sum(mid) = Zero)
    => TargetField(app) = TargetField(mid)

\* C3 (amended): at a closure error of 0 the target field comes out unchanged
\* for the targets Snr and TxPower, and for Distance when the break exponent
\* is positive; and one frame with target Snr from any snapshot with a finite
\* closure error ends at a closure error of 0, so that the next one leaves snr
\* alone.
C3_Idempotent ==
  /\ (/\ Adjusted
      /\ total_db = Zero
      /\ total_sum(mid) = Zero
      /\ (mid.calculation_target = "Distance" => FLess(Zero, mid.break_exponent)))
       => TargetField(app) = TargetField(mid)
  /\ (input.kind = "idle" /\ pre.calculation_target = "Snr" /\ is_finite(total_db))
       => total_sum(app) = Zero

\* C3 witness: a frame at equilibrium with target Distance beyond the break.
C3_Witness ==
  /\ Adjusted
  /\ total_db = Zero
  /\ total_sum(mid) = Zero
  /\ mid.calculation_target = "Distance"
  /\ FLess(Zero, mid.break_exponent)
  /\ LLess(mid.d_break, mid.distance)
  /\ app.distance = mid.distance

\* the fields the match on the target may not touch, by target
Others(self) ==
  [temperature |-> self.temperature,
   bandwidth |-> self.bandwidth,
   frequency |-> self.frequency,
   d_break |-> self.d_break,
   break_exponent |-> self.break_exponent,
   gains |-> self.gains,
   losses |-> self.losses,
   rx_power |-> self.rx_power,
   tx_unit |-> self.tx_power.unit,
   names |-> <<self.gain_name, self.loss_name>>,
   calculation_target |-> self.calculation_target,
   snr |-> IF self.calculation_target = "Snr" THEN Zero ELSE self.snr,
   tx_dbm |-> IF self.calculation_target = "TxPower" THEN Zero ELSE self.tx_power.val_dbm,
   distance |-> IF self.calculation_target = "Distance" THEN LZero ELSE self.distance]

\* C4: with a finite closure error, the match changes only the field the
\* active target names; every other field is as the widgets left it.
C4_OneField == Adjusted => Others(app) = Others(mid)

\* C4 witness: the match moved tx power, with target TxPower.
C4_Witness ==
  /\ Adjusted
  /\ mid.calculation_target = "TxPower"
  /\ app.tx_power.val_dbm # mid.tx_power.val_dbm

\* what arrives at the receiver, and what the receiver needs
Received(self) ==
  FSub(FSub(FAdd(self.tx_power.val_dbm, MapSum(self.gains)), MapSum(self.losses)),
       path_loss(self.distance, self.d_break, self.frequency, self.break_exponent))

Required(self) == FAdd(thermal_noise_floor(self), self.snr)

\* C8: the error a frame reads is (tx power + gains) - (noise floor + losses +
\* path loss + snr) of the fields at the start of the frame; it is positive
\* exactly when more arrives than is required, negative exactly when less.
C8_ClosureError ==
  Acted =>
    /\ total_db =
         FSub(FSub(FSub(FSub(FAdd(pre.tx_power.val_dbm, MapSum(pre.gains)),
                             thermal_noise_floor(pre)),
                        MapSum(pre.losses)),
                   path_loss(pre.distance, pre.d_break, pre.frequency, pre.break_exponent)),
              pre.snr)
    /\ is_finite(total_db) =>
         /\ FLess(Zero, total_db) <=> FLess(Required(pre), Received(pre))
         /\ FLess(total_db, Zero) <=> FLess(Received(pre), Required(pre))

\* C8 witness: a frame read a finite, positive error with a gain in the budget.
C8_Witness ==
  /\ Acted
  /\ DOMAIN pre.gains # {}
  /\ is_finite(total_db)
  /\ FLess(Zero, total_db)

\* the match on the target wrote to tx power in the last frame
SolverMovedTx == Adjusted /\ mid.calculation_target = "TxPower"

\* a value in a display unit as dBm: dBW = dBm - 30, mW = 10^(dBm/10),
\* W = mW/1000
ToDbm(unit, val) ==
  CASE unit = "DbMilliwatt" -> val
    [] unit = "DbWatt" -> FAdd(val, Fin(30, 1))
    [] unit = "Milliwatt" -> FMul(Ten, log10(val))
    [] unit = "Watt" -> FAdd(FMul(Ten, log10(val)), Fin(30, 1))

PrefixOrder == <<"Kilo", "Mega", "Giga", "Tera", "Peta", "Exa", "Zetta", "Yotta">>

\* k = 1e3 ... Y = 1e24: the power of ten of a decimal prefix
PowerOfTen(prefix) == 3 * (CHOOSE i \in 1 .. 8 : PrefixOrder[i] = prefix)

Field(self, kind) == IF kind = "bandwidth" THEN self.bandwidth ELSE self.frequency

\* C10: a text that does not parse, or whose prefix is none of k, M, G, T, P,
\* E, Z, Y, leaves the edited field at its previous value; a number with one
\* of these prefixes sets it to mantissa * 10^(3i), a bare number to itself
\* (a negative result stops at 0, the lower end of the field's range).
C10_Parse ==
  input.kind \in {"bandwidth", "frequency"} =>
    LET parsed == input.val
        old == Field(pre, input.kind)
        new == Field(mid, input.kind)
    IN  /\ Field(app, input.kind) = new
        /\ parsed.t = "Err" => new = old
        /\ (parsed.t = "Prefixed" /\ parsed.prefix \notin DecimalPrefix) => new = old
        /\ (parsed.t = "Prefixed" /\ parsed.prefix \in DecimalPrefix) =>
             new = IF IsPositive(parsed.number)
                   THEN LinR(1, RAdd(parsed.number.q, R(10 * PowerOfTen(parsed.prefix), 1)))
                   ELSE LZero
        /\ parsed.t = "Standalone" =>
             new = IF IsPositive(parsed.number) THEN parsed.number ELSE LZero

\* C10 witness: a number with a binary prefix was committed to the frequency
\* field and the field kept its value.
C10_Witness ==
  /\ input.kind = "frequency"
  /\ input.val.t = "Prefixed"
  /\ input.val.prefix = "Kibi"
  /\ IsPositive(input.val.number)
  /\ app.frequency = pre.frequency

(***************************************************************************)
(* Properties of calc::friis                                               *)
(***************************************************************************)
\* d_break > 0, f > 0, n > 0
ValidModel ==
  /\ IsPositive(call.d_break)
  /\ IsPositive(call.frequency)
  /\ FLess(Zero, call.break_exponent)

\* C5: for d > 0, d_break > 0, f > 0, n > 0, distance(path_loss(d, ...), ...)
\* is d, below, at and beyond the break.
C5_RoundTrip ==
  (call.op = "distance" /\ IsPositive(call.distance) /\ ValidModel)
    => call.back = call.distance

\* C5 witness: the round trip of a distance beyond the break.
C5_Witness ==
  /\ call.op = "distance"
  /\ ValidModel
  /\ LLess(call.d_break, call.distance)
  /\ call.back = call.distance

\* C7 (as claimed): d1 < d2 implies path_loss(d1, ...) < path_loss(d2, ...),
\* whatever the break distance, the frequency and the break exponent.
C7_Original ==
  (call.op # "args" /\ LLess(call.distance, call.distance2))
    => FLess(call.loss, call.loss2)

\* C7 (amended): for 0 <= d1 < d2, d_break > 0, f > 0 and n > 0,
\* path_loss(d1, ...) < path_loss(d2, ...).
C7_Monotone ==
  (/\ call.op # "args"
   /\ LLess(call.distance, call.distance2)
   /\ call.distance.t = "zero" \/ IsPositive(call.distance)
   /\ ValidModel)
    => FLess(call.loss, call.loss2)

\* C7 witness: two distances on opposite sides of the break.
C7_Witness ==
  /\ call.op = "path_loss"
  /\ ValidModel
  /\ IsPositive(call.distance)
  /\ LLess(call.distance, call.d_break)
  /\ LLess(call.d_break, call.distance2)
  /\ FLess(call.loss, call.loss2)

(***************************************************************************)
(* Properties of the power units                                           *)
(***************************************************************************)
\* C6 (as claimed): a finite value stored from a display unit reads back as
\* itself in that unit.
C6_Original == call.op = "shown" => call.back = call.p

\* the dBm value of p in a display unit, written out on the representation
ExpectedDbm(unit, p) ==
  CASE unit = "DbMilliwatt" -> p
    [] unit = "DbWatt" -> FinR(RAdd(p.v, R(30, 1)))
    [] unit = "Milliwatt" -> IF p.t = "zero" THEN NInf ELSE FinR(p.q)
    [] unit = "Watt" -> IF p.t = "zero" THEN NInf ELSE FinR(RAdd(p.q, R(30, 1)))

\* C6 (amended): a finite value p stored from a display unit reads back as
\* itself, for every p in dBW and for p >= 0 in mW and W; the stored dBm
\* value is p + 30 for dBW, 10*log10(p) for mW and 10*log10(1000 p) for W.
C6_RoundTrip ==
  (/\ call.op \in {"stored", "shown"}
   /\ call.power.unit \in {"Milliwatt", "Watt"}
        => (call.p.t = "zero" \/ IsPositive(call.p)))
    => /\ call.power.val_dbm = ExpectedDbm(call.power.unit, call.p)
       /\ call.op = "shown" => call.back = call.p

\* C6 witness: a positive number of watts went to dBm and back.
C6_Witness ==
  /\ call.op = "shown"
  /\ call.power.unit = "Watt"
  /\ IsPositive(call.p)
  /\ call.p # Pos(0, 1)
  /\ call.back = call.p


(***************************************************************************)
(* The noise model of calc.rs on its own: thermal_noise_power is applied   *)
(* to a temperature and a bandwidth, thermal_noise_temperature to its      *)
(* result and the same bandwidth.                                          *)
(***************************************************************************)
NoiseTemperatures ==
  {Pos(2462, 100), Pos(0, 1), Pos(30, 1), Pos(10, 1), Pos(-10, 1), LZero,
   Lin(-1, 0, 1), Lin(-1, 2462, 100)}
NoiseBandwidths ==
  {Pos(7301, 100), Pos(0, 1), Pos(60, 1), Pos(30, 1), Pos(-30, 1), LZero,
   Lin(-1, 0, 1)}

InitNoise ==
  /\ Quiet
  /\ \E t \in NoiseTemperatures, b \in NoiseBandwidths :
       call = [op |-> "args", temperature |-> t, bandwidth |-> b,
               power |-> LNaN, back |-> LNaN]

CallNoisePower ==
  /\ call.op = "args"
  /\ call' = [call EXCEPT
                !.op = "power",
                !.power = thermal_noise_power(call.temperature, call.bandwidth)]
  /\ UNCHANGED <<app, pre, mid, total_db, input, frames>>

CallNoiseTemperature ==
  /\ call.op = "power"
  /\ call' = [call EXCEPT
                !.op = "temperature",
                !.back = thermal_noise_temperature(call.power, call.bandwidth)]
  /\ UNCHANGED <<app, pre, mid, total_db, input, frames>>

NextNoise == CallNoisePower \/ CallNoiseTemperature

SpecNoise == InitNoise /\ [][NextNoise]_vars

\* k_B * T * B for a finite T and a finite B > 0, written out on the
\* representation
KTB(t, b) ==
  IF t.t = "zero" THEN LZero ELSE LinR(t.s, RAdd(RAdd(KB.q, t.q), b.q))

\* C11: for every bandwidth B > 0 and every temperature T,
\* thermal_noise_power(T, B) is k_B * T * B and
\* thermal_noise_temperature(thermal_noise_power(T, B), B) is T.
C11_NoiseInverse ==
  (call.op \in {"power", "temperature"} /\ IsPositive(call.bandwidth))
    => /\ call.power = KTB(call.temperature, call.bandwidth)
       /\ call.op = "temperature" => call.back = call.temperature

\* C11 witness: 290 K went to a noise power over 20 MHz and back.
C11_Witness ==
  /\ call.op = "temperature"
  /\ call.bandwidth = Pos(7301, 100)
  /\ call.temperature = Pos(2462, 100)
  /\ call.power # call.temperature
  /\ call.back = call.temperature


(***************************************************************************)
(* Properties of the order of steps within update()                        *)
(***************************************************************************)
\* C12 (as claimed): the error the match applies is the closure error of the
\* fields, and was read under the target, that are in force when it is
\* applied: nothing is modified between reading the error and applying it.
C12_Snapshot ==
  Adjusted =>
    /\ total_db = total_sum(mid)
    /\ mid.calculation_target = pre.calculation_target

\* snr, tx power and distance are finite
SolvablesFinite(self) ==
  /\ is_finite(self.snr)
  /\ is_finite(self.tx_power.val_dbm)
  /\ self.distance.t \in {"fin", "zero"}

\* C13 (as claimed): a cycle that starts from finite snr, tx power and distance
\* and works on the closure error of its fields ends with the three finite,
\* whatever the other inputs and the target are.
C13_Finite ==
  (Acted /\ total_db = total_sum(mid) /\ SolvablesFinite(mid))
    => SolvablesFinite(app)


(***************************************************************************)
(* Properties of the two branches of calc::friis                           *)
(***************************************************************************)
\* 32 + 20*log10(f/1e9) + 20*log10(d) for positive f and d, written out on
\* the representation
NearFormula(d, f) ==
  FinR(RAdd(R(32, 1), RAdd(RMul(R(2, 1), RSub(f.q, R(90, 1))), RMul(R(2, 1), d.q))))

\* 32 + 20*log10(f/1e9) + 20*log10(d_break) + n*10*log10(d/d_break)
FarFormula(d, b, f, n) ==
  FinR(RAdd(RAdd(R(32, 1), RAdd(RMul(R(2, 1), RSub(f.q, R(90, 1))), RMul(R(2, 1), b.q))),
            RMul(n.v, RSub(d.q, b.q))))

\* the part of a loss that depends on the distance: loss - 32 - 20*log10(f/1e9)
DistanceLoss(loss, f) ==
  RSub(RSub(loss.v, R(32, 1)), RMul(R(2, 1), RSub(f.q, R(90, 1))))

PositiveArgs ==
  /\ IsPositive(call.distance)
  /\ IsPositive(call.d_break)
  /\ IsPositive(call.frequency)

\* C14 (as claimed): for d > 0 and n > 0 the inverse takes its near-field
\* branch exactly when path_loss took its near-field branch.
C14_Original ==
  (call.op = "distance" /\ PositiveArgs /\ FLess(Zero, call.break_exponent))
    => call.near_back = call.near

\* C14 (amended): path_loss is the near-field formula for d < d_break and the
\* far-field formula for d >= d_break; the inverse takes its near-field branch
\* exactly when the distance-dependent loss is at or below 20*log10(d_break);
\* for n > 0 the two take matching branches for every d > 0 other than
\* d_break, and at d = d_break path_loss takes the far-field branch, the
\* inverse the near-field branch, and the inverse still returns d.
C14_Piecewise ==
  (call.op # "args" /\ PositiveArgs) =>
    /\ call.near = RLess(call.distance.q, call.d_break.q)
    /\ call.loss = IF RLess(call.distance.q, call.d_break.q)
                   THEN NearFormula(call.distance, call.frequency)
                   ELSE FarFormula(call.distance, call.d_break, call.frequency,
                                   call.break_exponent)
    /\ call.op = "distance" =>
         /\ call.near_back =
              RLeq(DistanceLoss(call.loss, call.frequency), RMul(R(2, 1), call.d_break.q))
         /\ (FLess(Zero, call.break_exponent) /\ call.distance # call.d_break)
              => call.near_back = call.near
         /\ (FLess(Zero, call.break_exponent) /\ call.distance = call.d_break)
              => (~call.near /\ call.near_back /\ call.back = call.distance)

\* C14 witness: a distance at the break went through the far-field branch of
\* path_loss and came back through the near-field branch of the inverse.
C14_Witness ==
  /\ call.op = "distance"
  /\ PositiveArgs
  /\ FLess(Zero, call.break_exponent)
  /\ call.distance = call.d_break
  /\ call.distance # Pos(0, 1)
  /\ ~call.near
  /\ call.near_back
  /\ call.back = call.distance


(***************************************************************************)
(* Properties of runs of frames without input                              *)
(***************************************************************************)
\* the last frame had no input, started from valid inputs and read a finite
\* closure error
QuietFrame == input.kind = "idle" /\ Valid(pre) /\ is_finite(total_db)

\* C15: once the user stops editing, with valid inputs and a finite error,
\* the second frame without input reads a closure error of 0 and ends at 0;
\* and a frame without input that follows one which read 0 reads 0 again and
\* changes no field.  Hence from the second frame on the error is 0, and from
\* the third on nothing changes.
C15_Equilibrium ==
  [][/\ (QuietFrame /\ input'.kind = "idle")
          => (total_db' = Zero /\ total_sum(app') = Zero)
     /\ (QuietFrame /\ total_db = Zero /\ input'.kind = "idle")
          => (total_db' = Zero /\ app' = app)]_vars

\* C15 witness: after a change of target to Distance, the second frame
\* without input has gone by: the error is 0 and no field moved in it.
C15_Witness ==
  /\ QuietFrame
  /\ frames = 3
  /\ app.calculation_target = "Distance"
  /\ total_db = Zero
  /\ total_sum(app) = Zero
  /\ app = pre


(***************************************************************************)
(* Properties of Reset                                                     *)
(***************************************************************************)
\* thermal noise floor of the default temperature and bandwidth, in dBm:
\* 10*log10(k_B * 290 * 20e6 * 1000)
DefaultFloor ==
  FinR(RAdd(RAdd(RAdd(KB.q, Default.temperature.q), Default.bandwidth.q), R(30, 1)))

\* C16 (as claimed): at the end of a frame in which Reset was clicked,
\* temperature, bandwidth, snr, frequency, tx power, distance, break distance,
\* break exponent, gains, losses and target hold their default values.
C16_Original ==
  input.kind = "reset" => [app EXCEPT !.rx_power = Default.rx_power] = Default

\* C16 (amended): at the end of a frame in which Reset was clicked every field
\* other than snr and rx power holds its default value; rx power holds the
\* default snr plus the default noise floor; snr holds 10 plus the closure
\* error read at the start of the frame when that error is finite, and 10
\* otherwise.
C16_Reset ==
  input.kind = "reset" =>
    /\ [app EXCEPT !.snr = Default.snr, !.rx_power = Default.rx_power] = Default
    /\ app.rx_power = [val_dbm |-> FinR(RAdd(R(10, 1), DefaultFloor.v)),
                       unit |-> "DbMilliwatt"]
    /\ app.snr = IF is_finite(total_db) THEN FinR(RAdd(R(10, 1), total_db.v))
                 ELSE Fin(10, 1)

\* C16 witness: Reset was clicked with a gain in the table and a finite,
\* non-zero closure error; the table is empty again.
C16_Witness ==
  /\ input.kind = "reset"
  /\ DOMAIN pre.gains # {}
  /\ is_finite(total_db)
  /\ total_db # Zero
  /\ DOMAIN app.gains = {}
  /\ app.calculation_target = "Snr"


(***************************************************************************)
(* Properties of rx power                                                  *)
(***************************************************************************)
\* C17 (as claimed): at the end of every frame the stored rx power is the snr
\* plus the thermal noise floor of the temperature and bandwidth, all three as
\* held at the end of that frame, also when the solver moved snr in it.
C17_RxConsistent ==
  Acted => app.rx_power.val_dbm = FAdd(app.snr, thermal_noise_floor(app))

====
